---- MODULE Spec2Model ----
(***************************************************************************)
(* Model of ceilometer/storage/impl_db2.py: the DB2 (pymongo) storage      *)
(* driver.  The connection pool, the adapter construction, the schema      *)
(* manager (upgrade), the write path (record_metering_data), the filter    *)
(* translation and the unsupported operations.                             *)
(***************************************************************************)
EXTENDS Integers, Sequences, FiniteSets, TLC

(***************************************************************************)
(* Bounds of the model.                                                    *)
(***************************************************************************)
\* record_metering_data calls explored
MaxCalls == 2
\* MongoClient instances established
MaxClients == 3
\* timestamps are 1..MaxTs
MaxTs == 2
\* clear() calls explored
MaxClears == 1
\* elements of a stored list of {key, value} pairs
MaxLen == 2

(***************************************************************************)
(* Python values.                                                          *)
(***************************************************************************)
\* Python's None; no identifier or name of the model is this string
None == "None"
\* a falsy timestamp (None): datetimes are 1..MaxTs
NoTs == 0
\* truth value of an optional string: None and '' are falsy
Truthy(v) == v # None /\ v # ""

Range(s) == {s[i] : i \in 1..Len(s)}

\* d.get(k): the value under k, None when the key is missing
Get(d, k) == IF k \in DOMAIN d THEN d[k] ELSE None

(***************************************************************************)
(* Inputs.                                                                 *)
(***************************************************************************)
Users == {"u1", "u2"}
Projects == {"p1", "p2"}
Resources == {"r1", "r2"}
Sources == {"s1", "s2"}
CounterNames == {"cpu", "disk"}
CounterTypes == {"gauge", "cumulative"}
CounterUnits == {"percent", "B"}
\* resource_metadata maps, as sets of <<key, value>> pairs
Metadatas == {{<<"host", "h1">>}, {<<"zone", "z1">>}}
Timestamps == 1..MaxTs
\* '_id' a caller may supply with a sample
CallerIds == {"x"}

\* the sample of the end-to-end scenario
RefSample ==
  [user_id |-> "u1", project_id |-> "p1", resource_id |-> "r1",
   source |-> "s1", counter_name |-> "cpu", counter_type |-> "gauge",
   counter_unit |-> "percent", counter_volume |-> 42, timestamp |-> 1,
   resource_metadata |-> {<<"host", "h1">>}]

AllSamples ==
  [user_id : Users, project_id : Projects, resource_id : Resources,
   source : Sources, counter_name : CounterNames,
   counter_type : CounterTypes, counter_unit : CounterUnits,
   counter_volume : {42}, timestamp : Timestamps,
   resource_metadata : Metadatas]

\* number of fields in which a sample differs from the reference sample
Diff(s) == Cardinality({k \in DOMAIN RefSample : s[k] # RefSample[k]})

\* samples without '_id': the reference sample changed in at most one field
PlainSamples == {s \in AllSamples : Diff(s) <= 1}

\* the fields of the reference sample that a sample changes
Changed(s) == {k \in DOMAIN RefSample : s[k] # RefSample[k]}

\* samples that carry an '_id' of their caller
IdSamples ==
  {("_id" :> i) @@ s :
     i \in CallerIds, s \in {t \in PlainSamples : Changed(t) \subseteq {"source"}}}

\* the data dictionaries passed to record_metering_data
Payloads == PlainSamples \cup IdSamples

\* the data dictionaries passed by the writers that run at the same time
WriterPayloads ==
  {s \in PlainSamples :
     Changed(s) \subseteq {"user_id", "project_id", "resource_id", "source",
                          "counter_name"}}
  \cup IdSamples


(***************************************************************************)
(* State.                                                                  *)
(***************************************************************************)
VARIABLES
  pool,      \* ConnectionPool._pool: url -> client weakly referenced (0: no entry)
  conn,      \* holder -> client of the Connection it holds (0: holds none)
  urlOf,     \* the clients established so far: client -> its url
  pc,        \* position of each caller inside ConnectionPool.connect
  arg,       \* url argument of each caller's connect
  local,     \* local variable client of each caller's connect (0: unset)
  version,   \* url -> versionArray of the server_info() of that backend
  db,        \* url -> the database (self.db): its collections and indexes
  noid,      \* number of bson ObjectIds generated so far
  calls,     \* backend calls issued by the last operation, in order
  result,    \* the last operation and its outcome
  history,   \* data of the record_metering_data calls made so far, in order
  ndone,     \* record_metering_data calls that returned without error
  nclears,   \* clear() calls made so far
  wpc,       \* writer -> pending sub-write of its record_metering_data call
  wdata,     \* writer -> data dictionary of its call
  failed,    \* whether a sub-write of an interleaved writer failed
  qin,       \* arguments of the last filter translation
  qout       \* its outcome

poolVars == <<pool, conn, urlOf, pc, arg, local, version>>
storeVars == <<db, noid, calls, result, history, ndone, nclears>>
writerVars == <<wpc, wdata, failed>>
queryVars == <<qin, qout>>
vars == <<pool, conn, urlOf, pc, arg, local, version, db, noid, calls, result,
          history, ndone, nclears, wpc, wdata, failed, qin, qout>>

(***************************************************************************)
(* The document store behind pymongo: collections are sets of documents,   *)
(* array fields are sequences.                                             *)
(***************************************************************************)
Collections == {"user", "project", "resource", "meter"}

\* a database nothing was ever written to
EmptyDb ==
  [user |-> {}, project |-> {}, resource |-> {}, meter |-> {}, alarm |-> {},
   idx |-> [c \in Collections |-> {}]]

\* str(bson.objectid.ObjectId()): the n-th identifier generated
ObjectId(n) == "oid" \o ToString(n)

\* $set in the place of $addToSet: the array is replaced by the value
SetArray(arr, x) == <<x>>

\* $addToSet: append the value unless the array already holds it
AddToSet(arr, x) == IF x \in Range(arr) THEN arr ELSE Append(arr, x)

\* Collection.insert(doc); the first insert creates the collection, with its
\* index on _id.  A document whose _id is stored already is refused.
DuplicateKey(coll, doc) == \E o \in coll : o._id = doc._id

Insert(d, c, doc) ==
  [d EXCEPT ![c] = @ \cup {doc}, !.idx[c] = @ \cup {"_id_"}]

\* Collection.remove({'_id': id})
Remove(d, c, id) == [d EXCEPT ![c] = {o \in @ : o._id # id}]

\* Collection.ensure_index(keys, name=name)
EnsureIndex(d, c, name) == [d EXCEPT !.idx[c] = @ \cup {"_id_", name}]

\* Collection.drop()
Drop(d, c) == [d EXCEPT ![c] = {}, !.idx[c] = {}]


(***************************************************************************)
(* An operation runs in an environment e: the database d it works on, the  *)
(* ObjectId generator and the trace of the backend calls it issued.        *)
(***************************************************************************)
Env(d, n) == [d |-> d, noid |-> n, calls |-> <<>>]

Log(e, c, op) == [e EXCEPT !.calls = Append(@, <<c, op>>)]

\* a fresh ObjectId is drawn
NewId(e) == [e EXCEPT !.noid = @ + 1]

DbInsert(e, c, doc) == Log([e EXCEPT !.d = Insert(@, c, doc)], c, "insert")
\* remove with an empty query: every document of the collection goes
DbRemoveAll(e, c, id) == Log([e EXCEPT !.d = [@ EXCEPT ![c] = {}]], c, "remove")

DbRemove(e, c, id) == Log([e EXCEPT !.d = Remove(@, c, id)], c, "remove")
DbEnsureIndex(e, c, name) ==
  Log([e EXCEPT !.d = EnsureIndex(@, c, name)], c, "ensure_index")
DbDrop(e, c) == Log([e EXCEPT !.d = Drop(@, c)], c, "drop")

(***************************************************************************)
(* Connection.upgrade: the schema manager.                                 *)
(***************************************************************************)
\* the branch taken when the resource collection has no index at all
UpgradeCreate(e0) ==
  LET resource_id == ObjectId(e0.noid + 1)
      e1 == DbInsert(NewId(e0), "resource",
                     [_id |-> resource_id, no_key |-> resource_id])
      meter_id == ObjectId(e1.noid + 1)
      e2 == DbInsert(NewId(e1), "meter",
                     [_id |-> meter_id, no_key |-> meter_id])
      e3 == DbEnsureIndex(e2, "resource", "resource_idx")
      e4 == DbEnsureIndex(e3, "meter", "meter_idx")
      e5 == DbEnsureIndex(e4, "meter", "timestamp_idx")
      e6 == DbRemove(e5, "resource", resource_id)
      e7 == DbRemove(e6, "meter", meter_id)
      user_id == ObjectId(e7.noid + 1)
      e8 == DbInsert(NewId(e7), "user", [_id |-> user_id])
      e9 == DbRemove(e8, "user", user_id)
      project_id == ObjectId(e9.noid + 1)
      e10 == DbInsert(NewId(e9), "project", [_id |-> project_id])
  IN  DbRemove(e10, "project", project_id)

\* upgrade without the look at the index metadata
upgrade_always(e0) == UpgradeCreate(Log(e0, "resource", "index_information"))

upgrade(e0) ==
  LET e1 == Log(e0, "resource", "index_information")
  IN  IF e1.d.idx.resource = {} THEN UpgradeCreate(e1) ELSE e1

(***************************************************************************)
(* Connection.clear                                                        *)
(***************************************************************************)
clear(e0) ==
  LET e1 == DbDrop(e0, "user")
      e2 == DbDrop(e1, "project")
      e3 == DbDrop(e2, "resource")
      e4 == DbDrop(e3, "meter")
  IN  Log(e4, "conn", "drop_database")

\* clear() whose n-th drop raises: the collections before it are dropped,
\* the others stay
clear_failing(e0, n) ==
  LET e1 == DbDrop(e0, "user")
      e2 == DbDrop(e1, "project")
      e3 == DbDrop(e2, "resource")
  IN  Log(<<e0, e1, e2, e3>>[n], <<"user", "project", "resource", "meter">>[n],
          "drop")


(***************************************************************************)
(* Connection.record_metering_data: the write path and its four sub-writes *)
(***************************************************************************)
\* an insert in the place of the upsert
InsertSource(coll, id, src) == coll \cup {[_id |-> id, source |-> <<src>>]}

\* update({'_id': id}, {'$addToSet': {'source': src}}, upsert=True)
UpsertSource(coll, id, src) ==
  IF \E o \in coll : o._id = id
  THEN {IF o._id = id
        THEN [o EXCEPT !.source = AddToSet(@, src)]
        ELSE o : o \in coll}
  ELSE coll \cup {[_id |-> id, source |-> <<src>>]}

\* the {counter_name, counter_type, counter_unit} added to a resource
MeterOf(data) ==
  [counter_name |-> data.counter_name, counter_type |-> data.counter_type,
   counter_unit |-> data.counter_unit]

\* the upsert of a resource that merges the new metadata into the stored one
MergeResource(coll, data) ==
  IF \E o \in coll : o._id = data.resource_id
  THEN {IF o._id = data.resource_id
        THEN [o EXCEPT !.project_id = data.project_id,
                       !.user_id = data.user_id,
                       !.metadata = @ \cup data.resource_metadata,
                       !.source = data.source,
                       !.meter = AddToSet(@, MeterOf(data))]
        ELSE o : o \in coll}
  ELSE coll \cup {[_id |-> data.resource_id,
                   project_id |-> data.project_id,
                   user_id |-> data.user_id,
                   metadata |-> data.resource_metadata,
                   source |-> data.source,
                   meter |-> <<MeterOf(data)>>]}

\* the upsert of a resource that replaces the meter array by the new meter
ReplaceMeter(coll, data) ==
  {o \in coll : o._id # data.resource_id} \cup
    {[_id |-> data.resource_id,
      project_id |-> data.project_id,
      user_id |-> data.user_id,
      metadata |-> data.resource_metadata,
      source |-> data.source,
      meter |-> <<MeterOf(data)>>]}

\* update({'_id': resource_id}, {'$set': {...}, '$addToSet': {'meter': ...}},
\*        upsert=True)
UpsertResource(coll, data) ==
  IF \E o \in coll : o._id = data.resource_id
  THEN {IF o._id = data.resource_id
        THEN [o EXCEPT !.project_id = data.project_id,
                       !.user_id = data.user_id,
                       !.metadata = data.resource_metadata,
                       !.source = data.source,
                       !.meter = AddToSet(@, MeterOf(data))]
        ELSE o : o \in coll}
  ELSE coll \cup {[_id |-> data.resource_id,
                   project_id |-> data.project_id,
                   user_id |-> data.user_id,
                   metadata |-> data.resource_metadata,
                   source |-> data.source,
                   meter |-> <<MeterOf(data)>>]}

\* an upsert creates the collection (and its index on _id) when missing
Touch(d, c) == [d EXCEPT !.idx[c] = @ \cup {"_id_"}]

\* the user upsert lost: nothing is written
SkipUser(e, data) == Log(e, "user", "update")

WriteUser(e, data) ==
  Log([e EXCEPT !.d = Touch([@ EXCEPT !.user =
         UpsertSource(@, data.user_id, data.source)], "user")],
      "user", "update")

WriteProject(e, data) ==
  Log([e EXCEPT !.d = Touch([@ EXCEPT !.project =
         UpsertSource(@, data.project_id, data.source)], "project")],
      "project", "update")

WriteResource(e, data) ==
  Log([e EXCEPT !.d = Touch([@ EXCEPT !.resource =
         UpsertResource(@, data)], "resource")],
      "resource", "update")

\* The dictionaries are objects of a heap: object 1 is the caller's data,
\* the name record is bound to the object obj.  An '_id' is generated when
\* the record has none; insert.  Yields the environment, the outcome, the
\* stored record and the caller's dictionary as the call leaves it.
InsertRecord(e, heap, obj) ==
  LET gen == Get(heap[obj], "_id") = None
      e1 == IF gen THEN NewId(e) ELSE e
      heap1 == IF gen
               THEN [heap EXCEPT ![obj] = ("_id" :> ObjectId(e1.noid)) @@ @]
               ELSE heap
      record == heap1[obj]
  IN  IF DuplicateKey(e1.d.meter, record)
      THEN [e |-> Log(e1, "meter", "insert"), status |-> "DuplicateKeyError",
            record |-> record, data |-> heap1[1]]
      ELSE [e |-> DbInsert(e1, "meter", record), status |-> "ok",
            record |-> record, data |-> heap1[1]]

\* record = data: the record is the caller's own dictionary
WriteMeterInPlace(e, data) == InsertRecord(e, <<data>>, 1)

\* record = copy.copy(data): the record is a new object with the items of
\* data
WriteMeter(e, data) == InsertRecord(e, <<data, data>>, 2)

record_metering_data(e0, data) ==
  LET e1 == WriteUser(e0, data)
      e2 == WriteProject(e1, data)
      e3 == WriteResource(e2, data)
  IN  WriteMeter(e3, data)

(***************************************************************************)
(* ConnectionPool and Connection.__init__                                  *)
(***************************************************************************)
\* conf.database.connection, as the scheme and the rest of the address
ConfUrls == {<<"db2:", "//A/ceilometer">>, <<"mongodb:", "//A/ceilometer">>,
             <<"db2:", "//B/ceilometer">>}

\* url.replace(old, new, 1): the first occurrence of old becomes new
Replace(url, old, new) ==
  IF \E i \in 1..Len(url) : url[i] = old
  THEN LET i == CHOOSE j \in 1..Len(url) :
                  url[j] = old /\ \A k \in 1..(j - 1) : url[k] # old
       IN  [url EXCEPT ![i] = new]
  ELSE url

PoolUrls == {Replace(u, "db2:", "mongodb:") : u \in ConfUrls}

Holders == {"h1", "h2"}

\* the callers of record_metering_data
Writers == {"w1", "w2"}

\* the clients something references strongly: a Connection held by a holder,
\* or the local variable of a running connect
Strong(cn, lc) == ({cn[h] : h \in Holders} \cup {lc[h] : h \in Holders}) \ {0}

\* calling a weak reference: the client while it is strongly referenced,
\* else None (0)
Deref(c, strong) == IF c \in strong THEN c ELSE 0

\* connect with a pool that references its clients strongly: a cached client
\* is returned whether or not anything else still holds it
connect_strong(p, uo, strong, url) ==
  IF url \in DOMAIN p
  THEN [client |-> p[url], pool |-> p, urlOf |-> uo]
  ELSE [client |-> Len(uo) + 1,
        pool |-> (url :> (Len(uo) + 1)) @@ p,
        urlOf |-> Append(uo, url)]

\* ConnectionPool.connect, run without interruption: the client returned,
\* the pool and the clients established afterwards
connect(p, uo, strong, url) ==
  LET client == IF url \in DOMAIN p THEN Deref(p[url], strong) ELSE 0
  IN  IF client # 0
      THEN [client |-> client, pool |-> p, urlOf |-> uo]
      ELSE [client |-> Len(uo) + 1,
            pool |-> (url :> (Len(uo) + 1)) @@ p,
            urlOf |-> Append(uo, url)]

\* Python's list comparison a < b
RECURSIVE ListLess(_, _)
ListLess(a, b) ==
  IF b = <<>> THEN FALSE
  ELSE IF a = <<>> THEN TRUE
  ELSE IF a[1] # b[1] THEN a[1] < b[1]
  ELSE ListLess(Tail(a), Tail(b))

\* the versionArray a backend may report; DB2 reports none (<<>>)
Versions == {<<>>, <<1, 8, 5, 0>>, <<2, 0, 9, 0>>, <<2, 2, 0, 0>>, <<2, 4, 1, 0>>}

MinVersion == <<2, 2>>

BadVersion(version_array) ==
  version_array # <<>> /\ ListLess(version_array, MinVersion)

\* __init__ with the version looked at only after upgrade
ConnectionInitLate(p, uo, strong, ver, d, n, confurl) ==
  LET url == Replace(confurl, "db2:", "mongodb:")
      c == connect(p, uo, strong, url)
      e1 == upgrade(Log(Env(d[url], n), "pool", "connect"))
      e2 == Log(e1, "conn", "server_info")
  IN  [status |-> IF BadVersion(ver[url]) THEN "StorageBadVersion" ELSE "ok",
       url |-> url, client |-> c.client, pool |-> c.pool, urlOf |-> c.urlOf,
       e |-> e2]

\* Connection.__init__: connect through the pool, check the version,
\* upgrade.  Yields the outcome, the client (kept in self.conn on success),
\* the pool, the clients, and the environment of the backend calls.
ConnectionInit(p, uo, strong, ver, d, n, confurl) ==
  LET url == Replace(confurl, "db2:", "mongodb:")
      c == connect(p, uo, strong, url)
      e1 == Log(Log(Env(d[url], n), "pool", "connect"), "conn", "server_info")
  IN  IF BadVersion(ver[url])
      THEN [status |-> "StorageBadVersion", url |-> url, client |-> c.client,
            pool |-> c.pool, urlOf |-> c.urlOf, e |-> e1]
      ELSE [status |-> "ok", url |-> url, client |-> c.client,
            pool |-> c.pool, urlOf |-> c.urlOf, e |-> upgrade(e1)]


(***************************************************************************)
(* The operations that are not implemented: each raises at once.           *)
(***************************************************************************)
Raised(e, error) == [e |-> e, status |-> error, value |-> <<>>]
Returned(e, value) == [e |-> e, status |-> "ok", value |-> value]

clear_expired_metering_data(e, ttl) == Raised(e, "NotImplementedError")

\* get_meter_statistics with its first statement removed: the aggregation
\* runs, and a store without a matching sample has no result to return
get_meter_statistics_enabled(e, sample_filter, period, groupby) ==
  IF groupby # <<>> \/ period # <<>> THEN Raised(e, "NotImplementedError")
  ELSE [e |-> Log(e, "meter", "aggregate"), status |-> "IndexError",
        value |-> <<>>]

get_meter_statistics(e, sample_filter, period, groupby) ==
  Raised(e, "NotImplementedError")

get_alarm_changes(e, alarm_id, on_behalf_of) ==
  Raised(e, "NotImplementedError")

record_alarm_change(e, alarm_change) == Raised(e, "NotImplementedError")

record_events(e, events) == Raised(e, "NotImplementedError")

get_events(e, event_filter) == Raised(e, "NotImplementedError")

(***************************************************************************)
(* Filter translation.  A query document maps paths to values: the key     *)
(* 'user_id' is the path <<"user_id">>, the dotted key 'a.b' is <<"a",    *)
(* "b">>.                                                                  *)
(***************************************************************************)
Key(name) == <<name>>

\* the fields of a SampleFilter; a metaquery maps paths to values
OptUsers == {None, "", "u1"}
OptProjects == {None, "p1"}
OptMeters == {None, "", "cpu"}
OptResources == {None, "r1"}
OptSources == {None, "s1"}
OptTimestamps == {NoTs} \cup Timestamps
StartOps == {None, "gt", "ge"}
EndOps == {None, "le", "lt"}
Metaqueries == {<<>>, (<<"metadata", "host">> :> "h1")}

SampleFilters ==
  [user : OptUsers, project : OptProjects, meter : OptMeters,
   resource : OptResources, source : OptSources,
   start : OptTimestamps, end : OptTimestamps,
   start_timestamp_op : StartOps, end_timestamp_op : EndOps,
   metaquery : Metaqueries]

\* the filter with nothing set
NoFilter ==
  [user |-> None, project |-> None, meter |-> None, resource |-> None,
   source |-> None, start |-> NoTs, end |-> NoTs,
   start_timestamp_op |-> None, end_timestamp_op |-> None,
   metaquery |-> <<>>]

\* the arguments of make_timestamp_range; the operators a caller may pass
\* with a time bound have some among them that mean nothing to it
RangeArgs ==
  LET ops == {None, "gt", "ge", "lt", "le", "eq", ""}
  IN  [start : OptTimestamps, end : OptTimestamps,
       start_timestamp_op : ops, end_timestamp_op : ops]

\* the range builder with an upper bound that is inclusive unless 'lt' is
\* asked for
make_timestamp_range_closed(start, end, start_timestamp_op, end_timestamp_op) ==
  LET r1 == IF start # NoTs
            THEN (IF start_timestamp_op = "gt" THEN "$gt" ELSE "$gte") :> start
            ELSE <<>>
  IN  IF end # NoTs
      THEN ((IF end_timestamp_op = "lt" THEN "$lt" ELSE "$lte") :> end) @@ r1
      ELSE r1

make_timestamp_range(start, end, start_timestamp_op, end_timestamp_op) ==
  LET r1 == IF start # NoTs
            THEN (IF start_timestamp_op = "gt" THEN "$gt" ELSE "$gte") :> start
            ELSE <<>>
  IN  IF end # NoTs
      THEN ((IF end_timestamp_op = "le" THEN "$lte" ELSE "$lt") :> end) @@ r1
      ELSE r1

\* dict(('resource_%s' % k, v) for (k, v) in metaquery.iteritems())
Prefix(k) == <<"resource_" \o k[1]>> \o Tail(k)

Prefixed(metaquery) ==
  [pk \in {Prefix(k) : k \in DOMAIN metaquery} |->
     metaquery[CHOOSE k \in DOMAIN metaquery : Prefix(k) = pk]]

\* q[name] = value when cond holds
SetIf(cond, name, value, q) == IF cond THEN (Key(name) :> value) @@ q ELSE q

\* the translation that never insists on a meter
make_query_lenient(sample_filter, require_meter) ==
  [status |-> "ok",
   value |-> SetIf(Truthy(sample_filter.meter), "counter_name",
                   sample_filter.meter, <<>>)]

make_query_from_filter(sample_filter, require_meter) ==
  LET q1 == SetIf(Truthy(sample_filter.user), "user_id",
                  sample_filter.user, <<>>)
      q2 == SetIf(Truthy(sample_filter.project), "project_id",
                  sample_filter.project, q1)
      q3 == SetIf(Truthy(sample_filter.meter), "counter_name",
                  sample_filter.meter, q2)
      ts_range == make_timestamp_range(sample_filter.start,
                                       sample_filter.end,
                                       sample_filter.start_timestamp_op,
                                       sample_filter.end_timestamp_op)
      q4 == SetIf(DOMAIN ts_range # {}, "timestamp", ts_range, q3)
      q5 == SetIf(Truthy(sample_filter.resource), "resource_id",
                  sample_filter.resource, q4)
      q6 == SetIf(Truthy(sample_filter.source), "source",
                  sample_filter.source, q5)
  IN  IF ~Truthy(sample_filter.meter) /\ require_meter
      THEN [status |-> "RuntimeError", value |-> <<>>]
      ELSE [status |-> "ok", value |-> Prefixed(sample_filter.metaquery) @@ q6]

(***************************************************************************)
(* Collection.find                                                         *)
(***************************************************************************)
\* a timestamp against the bounds of a range document
InRange(t, r) ==
  /\ "$gt" \in DOMAIN r => t > r["$gt"]
  /\ "$gte" \in DOMAIN r => t >= r["$gte"]
  /\ "$lt" \in DOMAIN r => t < r["$lt"]
  /\ "$lte" \in DOMAIN r => t <= r["$lte"]

\* whether the document has the value under the path; a document field
\* holding a map holds it as a set of <<key, value>> pairs
Holds(doc, path, value) ==
  /\ path[1] \in DOMAIN doc
  /\ IF Len(path) = 1 THEN doc[path[1]] = value
     ELSE <<path[2], value>> \in doc[path[1]]

Matches(doc, q) ==
  \A path \in DOMAIN q :
    IF path = Key("timestamp")
    THEN "timestamp" \in DOMAIN doc /\ InRange(doc.timestamp, q[path])
    ELSE Holds(doc, path, q[path])

Find(coll, q) == {doc \in coll : Matches(doc, q)}

\* the orders of a cursor sorted by timestamp, ascending
Ascending(docs) ==
  {s \in [1..Cardinality(docs) -> docs] :
     /\ \A i, j \in DOMAIN s : i < j =>
          s[i] # s[j] /\ s[i].timestamp <= s[j].timestamp}

\* the orders in which a cursor sorted by timestamp, descending, may hand
\* out the documents: documents of one timestamp come in any order
Descending(docs) ==
  {s \in [1..Cardinality(docs) -> docs] :
     /\ \A i, j \in DOMAIN s : i < j =>
          s[i] # s[j] /\ s[i].timestamp >= s[j].timestamp}

\* the first n elements of a sequence
Head_(s, n) == [i \in 1..(IF n < Len(s) THEN n ELSE Len(s)) |-> s[i]]

(***************************************************************************)
(* Connection.get_samples, iterated to its end.  A limit is <<n>>, no      *)
(* limit (None) is <<>>.  Yields the possible outcomes.                    *)
(***************************************************************************)
NoLimit == <<>>

\* del s['_id']; s['counter_unit'] = s.get('counter_unit', '')
AsSample(s) ==
  [k \in (DOMAIN s \ {"_id"}) \cup {"counter_unit"} |->
     IF k \in DOMAIN s THEN s[k] ELSE ""]

\* get_samples that hands a limit of 0 to find, for which 0 is no limit
get_samples_unchecked(e, sample_filter, limit) ==
  LET t == make_query_from_filter(sample_filter, FALSE)
      e1 == [e EXCEPT !.calls = Append(@, <<"meter", "find", t.value>>)]
  IN  IF t.status # "ok" THEN {Raised(e, t.status)}
      ELSE {Returned(e1, [i \in DOMAIN s |-> AsSample(s[i])]) :
              s \in {IF limit # NoLimit /\ limit # <<0>>
                     THEN Head_(c, limit[1]) ELSE c :
                       c \in Descending(Find(e.d.meter, t.value))}}

get_samples(e, sample_filter, limit) ==
  IF limit = <<0>> THEN {Returned(e, <<>>)}
  ELSE LET t == make_query_from_filter(sample_filter, FALSE)
           e1 == [e EXCEPT !.calls = Append(@, <<"meter", "find", t.value>>)]
       IN  IF t.status # "ok" THEN {Raised(e, t.status)}
           ELSE {Returned(e1, [i \in DOMAIN s |-> AsSample(s[i])]) :
                   s \in {IF limit # NoLimit THEN Head_(c, limit[1]) ELSE c :
                            c \in Descending(Find(e.d.meter, t.value))}}

(***************************************************************************)
(* Connection.get_resources and get_meters, iterated to their end.  Each   *)
(* yields the possible outcomes.                                           *)
(***************************************************************************)
\* the orders in which a cursor without a sort may hand out documents, or
\* iteritems() the pairs of a dict
NaturalOrders(docs) ==
  {s \in [1..Cardinality(docs) -> docs] :
     \A i, j \in DOMAIN s : i # j => s[i] # s[j]}

\* a trace entry for a find with its query document
LogFind(e, c, q) == [e EXCEPT !.calls = Append(@, <<c, "find", q>>)]

\* models.ResourceMeter of an element of the meter array of a resource
ResourceMeter(meter) ==
  [counter_name |-> meter.counter_name, counter_type |-> meter.counter_type,
   counter_unit |-> IF "counter_unit" \in DOMAIN meter
                    THEN meter.counter_unit ELSE ""]

\* models.Resource of a document of the resource collection
AsResource(resource) ==
  [resource_id |-> resource._id, project_id |-> resource.project_id,
   first_sample_timestamp |-> None, last_sample_timestamp |-> None,
   source |-> resource.source, user_id |-> resource.user_id,
   metadata |-> resource.metadata,
   meter |-> [i \in DOMAIN resource.meter |->
                ResourceMeter(resource.meter[i])]]

\* the resource-scoped query of get_resources
ResourceQuery(a) ==
  LET q1 == SetIf(a.user # None, "user_id", a.user, <<>>)
      q2 == SetIf(a.project # None, "project_id", a.project, q1)
      q3 == SetIf(a.source # None, "source", a.source, q2)
      q4 == SetIf(a.resource # None, "resource_id", a.resource, q3)
      q5 == Prefixed(a.metaquery) @@ q4
      ts_range == IF a.start_timestamp # NoTs \/ a.end_timestamp # NoTs
                  THEN make_timestamp_range(a.start_timestamp,
                                            a.end_timestamp,
                                            a.start_timestamp_op,
                                            a.end_timestamp_op)
                  ELSE <<>>
  IN  SetIf(DOMAIN ts_range # {}, "timestamp", ts_range, q5)

\* get_resources answered from the resource collection alone
get_resources_all(e, a) ==
  IF Truthy(a.pagination) THEN {Raised(e, "NotImplementedError")}
  ELSE {Returned(LogFind(e, "resource", <<>>),
                 [i \in DOMAIN s |-> AsResource(s[i])]) :
          s \in NaturalOrders(e.d.resource)}

\* get_resources that looks at pagination only after its queries
get_resources_paged(e, a) ==
  LET q == ResourceQuery(a)
      e1 == LogFind(e, "meter", q)
  IN  {Raised(LogFind(e1, "resource", <<>>), "NotImplementedError")}

get_resources(e, a) ==
  IF Truthy(a.pagination) THEN {Raised(e, "NotImplementedError")}
  ELSE LET q == ResourceQuery(a)
           e1 == LogFind(e, "meter", q)
           resource_ids ==
             {s.resource_id :
                s \in {t \in Find(e.d.meter, q) : "resource_id" \in DOMAIN t}}
           e2 == LogFind(e1, "resource", (Key("_id") :> resource_ids))
           found == {r \in e.d.resource : r._id \in resource_ids}
       IN  {Returned(e2, [i \in DOMAIN s |-> AsResource(s[i])]) :
              s \in NaturalOrders(found)}

\* models.Meter of an element of the meter array of a resource document
AsMeter(r, r_meter) ==
  [name |-> r_meter.counter_name, type |-> r_meter.counter_type,
   unit |-> IF "counter_unit" \in DOMAIN r_meter
            THEN r_meter.counter_unit ELSE "",
   resource_id |-> r._id, project_id |-> r.project_id,
   source |-> r.source, user_id |-> r.user_id]

\* the sequences one after the other
RECURSIVE Flatten(_)
Flatten(ss) == IF ss = <<>> THEN <<>> ELSE Head(ss) \o Flatten(Tail(ss))

get_meters(e, a) ==
  IF Truthy(a.pagination) THEN {Raised(e, "NotImplementedError")}
  ELSE LET q1 == SetIf(a.user # None, "user_id", a.user, <<>>)
           q2 == SetIf(a.project # None, "project_id", a.project, q1)
           q3 == SetIf(a.resource # None, "_id", a.resource, q2)
           q4 == SetIf(a.source # None, "source", a.source, q3)
           q == a.metaquery @@ q4
           e1 == LogFind(e, "resource", q)
       IN  {Returned(e1, Flatten([i \in DOMAIN s |->
                                   [j \in DOMAIN s[i].meter |->
                                      AsMeter(s[i], s[i].meter[j])]])) :
              s \in NaturalOrders(Find(e.d.resource, q))}

(***************************************************************************)
(* The metadata codec of the alarm store.  Python tells a dict from a list *)
(* (isinstance), an empty one included, so a value carries its type: a     *)
(* dict holds a set of <<key, value>> pairs, a list a sequence of          *)
(* elements.                                                               *)
(***************************************************************************)
Dict(pairs) == [type |-> "dict", val |-> pairs]
List(elems) == [type |-> "list", val |-> elems]
PyNone == [type |-> "NoneType", val |-> <<>>]

\* truth value of a dict, a list or None
NonEmpty(v) ==
  IF v.type = "dict" THEN v.val # {}
  ELSE IF v.type = "list" THEN v.val # <<>>
  ELSE FALSE

\* the <<key, value>> pairs of a matching_metadata
MetaPairs == {"host", "zone"} \X {"h1", "z1"}

\* the flat maps: sets of pairs with one value for a key
FlatMaps ==
  {Dict(m) : m \in {p \in SUBSET MetaPairs :
                      \A a, b \in p : a[1] = b[1] => a = b}}

\* {'key': k, 'value': v}
Elem(k, v) == [key |-> k, value |-> v]

\* the sequences of {key, value} elements of up to MaxLen elements
PairLists ==
  {List(s) : s \in UNION {[1..n -> {Elem(p[1], p[2]) : p \in MetaPairs}] :
                            n \in 0..MaxLen}}

\* the encoder that emits the keys only
encode_keys(matching_metadata) ==
  IF NonEmpty(matching_metadata)
  THEN {List([i \in DOMAIN s |-> Elem(s[i][1], s[i][1])]) :
          s \in NaturalOrders(matching_metadata.val)}
  ELSE {matching_metadata}

\* Connection._encode_matching_metadata: the possible outcomes
_encode_matching_metadata(matching_metadata) ==
  IF NonEmpty(matching_metadata)
  THEN {List([i \in DOMAIN s |-> Elem(s[i][1], s[i][2])]) :
          s \in NaturalOrders(matching_metadata.val)}
  ELSE {matching_metadata}

\* new_matching_metadata[elem['key']] = elem['value'], for each element
RECURSIVE FoldPairs(_, _)
FoldPairs(elems, new) ==
  IF elems = <<>> THEN new
  ELSE FoldPairs(Tail(elems),
                 {p \in new : p[1] # elems[1].key} \cup
                   {<<elems[1].key, elems[1].value>>})

\* Connection._decode_matching_metadata; iterating None raises
_decode_matching_metadata(matching_metadata) ==
  IF matching_metadata.type = "dict"
  THEN [status |-> "ok", value |-> matching_metadata]
  ELSE IF matching_metadata.type = "list"
  THEN [status |-> "ok",
        value |-> Dict(FoldPairs(matching_metadata.val, {}))]
  ELSE [status |-> "TypeError", value |-> PyNone]

(***************************************************************************)
(* The alarm store.  An alarm is a structured record: as_dict() gives the  *)
(* same fields for every alarm.  Booleans are the strings "True" and       *)
(* "False".                                                                *)
(***************************************************************************)
AlarmIds == {"a1", "a2"}
AlarmMetas == {Dict({}), Dict({<<"host", "h1">>, <<"zone", "z1">>})}

\* the alarms written: those named n1 are enabled, the others are not
Alarms ==
  {a \in [alarm_id : AlarmIds, name : {"n1", "n2"},
          enabled : {"True", "False"}, user_id : {"u1"}, project_id : {"p1"},
          matching_metadata : AlarmMetas] :
     a.enabled = "True" <=> a.name = "n1"}

\* alarm.as_dict()
as_dict(alarm) == alarm

\* a.update(alarm); del a['_id']
WithoutId(doc) == [k \in DOMAIN doc \ {"_id"} |-> doc[k]]

\* {'$set': data} on a document: the fields of data are set, the others stay
SetFields(doc, data) ==
  [k \in DOMAIN doc \cup DOMAIN data |->
     IF k \in DOMAIN data THEN data[k] ELSE doc[k]]

\* the documents of the alarm collection with an alarm_id
AlarmsOf(coll, alarm_id) == {o \in coll : o.alarm_id = alarm_id}

\* update({'alarm_id': id}, {'$set': data}, upsert=True): one matching
\* document is updated; when there is none a document is inserted, which
\* the backend gives an _id.  Yields the possible collections, each with
\* the number of ObjectIds generated.
UpsertAlarm(coll, n, data) ==
  IF AlarmsOf(coll, data.alarm_id) # {}
  THEN {[coll |-> (coll \ {o}) \cup {SetFields(o, data)}, noid |-> n] :
          o \in AlarmsOf(coll, data.alarm_id)}
  ELSE {[coll |-> coll \cup {("_id" :> ObjectId(n + 1)) @@ data},
         noid |-> n + 1]}

\* update_alarm as an insert: the document is added whatever is stored
update_alarm_insert(e, alarm) ==
  {LET doc == ("_id" :> ObjectId(e.noid + 1)) @@
                [as_dict(alarm) EXCEPT !.matching_metadata = enc]
       e1 == Log([e EXCEPT !.d.alarm = @ \cup {doc}, !.noid = @ + 1],
                 "alarm", "update")
   IN  Returned(Log(e1, "alarm", "find"), as_dict(alarm)) :
     enc \in _encode_matching_metadata(as_dict(alarm).matching_metadata)}

\* Connection.update_alarm (create_alarm is the same function): the
\* possible outcomes
update_alarm(e, alarm) ==
  UNION {
    LET data == [as_dict(alarm) EXCEPT !.matching_metadata = enc]
    IN  UNION {
          LET e1 == Log([e EXCEPT !.d.alarm = u.coll, !.noid = u.noid],
                        "alarm", "update")
              e2 == Log(e1, "alarm", "find")
          IN  {LET stored_alarm == WithoutId(stored)
                   dec == _decode_matching_metadata(
                            stored_alarm.matching_metadata)
               IN  IF dec.status = "ok"
                   THEN Returned(e2, [stored_alarm EXCEPT
                                        !.matching_metadata = dec.value])
                   ELSE Raised(e2, dec.status) :
                 stored \in AlarmsOf(u.coll, alarm.alarm_id)} :
          u \in UpsertAlarm(e.d.alarm, e.noid, data)} :
    enc \in _encode_matching_metadata(as_dict(alarm).matching_metadata)}

\* delete_alarm that refuses an id that is not stored
delete_alarm_strict(e, alarm_id) ==
  IF AlarmsOf(e.d.alarm, alarm_id) = {}
  THEN Raised(Log(e, "alarm", "remove"), "KeyError")
  ELSE Returned(Log([e EXCEPT !.d.alarm = @ \ AlarmsOf(@, alarm_id)],
                    "alarm", "remove"), <<>>)

\* Connection.delete_alarm: remove({'alarm_id': alarm_id})
delete_alarm(e, alarm_id) ==
  Returned(Log([e EXCEPT !.d.alarm = @ \ AlarmsOf(@, alarm_id)],
               "alarm", "remove"), <<>>)

\* the outcome of a loop over decoded alarms: the first failure raises
Decoded(e, s) ==
  LET dec == [i \in DOMAIN s |->
                _decode_matching_metadata(s[i].matching_metadata)]
  IN  IF \E i \in DOMAIN s : dec[i].status # "ok"
      THEN Raised(e, dec[CHOOSE i \in DOMAIN s :
                           /\ dec[i].status # "ok"
                           /\ \A j \in 1..(i - 1) : dec[j].status = "ok"].status)
      ELSE Returned(e, [i \in DOMAIN s |->
                          [WithoutId(s[i]) EXCEPT
                             !.matching_metadata = dec[i].value]])

\* Connection.get_alarms, iterated to its end
get_alarms(e, a) ==
  IF Truthy(a.pagination) THEN {Raised(e, "NotImplementedError")}
  ELSE LET q1 == SetIf(a.user # None, "user_id", a.user, <<>>)
           q2 == SetIf(a.project # None, "project_id", a.project, q1)
           q3 == SetIf(a.name # None, "name", a.name, q2)
           q4 == SetIf(a.enabled # None, "enabled", a.enabled, q3)
           q == SetIf(a.alarm_id # None, "alarm_id", a.alarm_id, q4)
           e1 == LogFind(e, "alarm", q)
       IN  {Decoded(e1, s) : s \in NaturalOrders(Find(e.d.alarm, q))}

(***************************************************************************)
(* Actions on the pool and on the adapters.  The adapter of holder h       *)
(* works on the database of the url of its client.                         *)
(***************************************************************************)
UrlOf(h) == urlOf[conn[h]]

Outcome(op, status, url, client) ==
  [op |-> op, status |-> status, url |-> url, client |-> client]

\* holder h constructs a Connection from a configured url
NewConnection(h, confurl) ==
  /\ conn[h] = 0
  /\ \A g \in Holders : pc[g] = "idle"
  /\ Len(urlOf) < MaxClients
  /\ LET r == ConnectionInit(pool, urlOf, Strong(conn, local), version, db,
                             noid, confurl)
     IN  /\ pool' = r.pool
         /\ urlOf' = r.urlOf
         /\ conn' = IF r.status = "ok" THEN [conn EXCEPT ![h] = r.client]
                    ELSE conn
         /\ db' = [db EXCEPT ![r.url] = r.e.d]
         /\ noid' = r.e.noid
         /\ calls' = r.e.calls
         /\ result' = Outcome("__init__", r.status, r.url, r.client)
  /\ UNCHANGED <<pc, arg, local, version, history, ndone, nclears>>
  /\ UNCHANGED <<writerVars, queryVars>>

\* holder h drops its Connection: the last reference to self.conn may go
Release(h) ==
  /\ conn[h] # 0
  /\ pc[h] = "idle"
  /\ conn' = [conn EXCEPT ![h] = 0]
  /\ calls' = <<>>
  /\ result' = Outcome("release", "ok", UrlOf(h), conn[h])
  /\ UNCHANGED <<pool, urlOf, pc, arg, local, version, db, noid, history,
                 ndone, nclears>>
  /\ UNCHANGED <<writerVars, queryVars>>

\* an operation of the adapter of holder h that leaves the environment e
\* and raises or returns as status says
Operation(h, op, e, status) ==
  /\ db' = [db EXCEPT ![UrlOf(h)] = e.d]
  /\ noid' = e.noid
  /\ calls' = e.calls
  /\ result' = Outcome(op, status, UrlOf(h), conn[h])
  /\ UNCHANGED <<poolVars, writerVars, queryVars>>

Upgrade(h) ==
  /\ conn[h] # 0
  /\ Operation(h, "upgrade", upgrade(Env(db[UrlOf(h)], noid)), "ok")
  /\ UNCHANGED <<history, ndone, nclears>>

Clear(h) ==
  /\ conn[h] # 0
  /\ nclears < MaxClears
  /\ Operation(h, "clear", clear(Env(db[UrlOf(h)], noid)), "ok")
  /\ nclears' = nclears + 1
  /\ UNCHANGED <<history, ndone>>

\* the call is recorded with the dictionary as the caller passed it (qin,
\* history) and as the caller finds it afterwards (qout.value)
RecordMeteringData(h, data) ==
  /\ conn[h] # 0
  /\ Len(history) < MaxCalls
  /\ LET r == record_metering_data(Env(db[UrlOf(h)], noid), data)
     IN  /\ db' = [db EXCEPT ![UrlOf(h)] = r.e.d]
         /\ noid' = r.e.noid
         /\ calls' = r.e.calls
         /\ result' = Outcome("record_metering_data", r.status, UrlOf(h),
                              conn[h])
         /\ ndone' = IF r.status = "ok" THEN ndone + 1 ELSE ndone
         /\ qin' = data
         /\ qout' = [op |-> "record_metering_data", arg |-> <<>>,
                     status |-> r.status, value |-> r.data]
  /\ history' = Append(history, data)
  /\ UNCHANGED <<poolVars, writerVars, nclears>>

\* the arguments tried on the operations that are not implemented
Ttls == {0, 3600}
Tenants == {None, "p1"}

Unchanged == UNCHANGED <<history, ndone, nclears>>

ClearExpiredMeteringData(h) ==
  /\ conn[h] # 0
  /\ \E ttl \in Ttls :
       LET r == clear_expired_metering_data(Env(db[UrlOf(h)], noid), ttl)
       IN  Operation(h, "clear_expired_metering_data", r.e, r.status)
  /\ Unchanged

GetAlarmChanges(h) ==
  /\ conn[h] # 0
  /\ \E a \in AlarmIds, t \in Tenants :
       LET r == get_alarm_changes(Env(db[UrlOf(h)], noid), a, t)
       IN  Operation(h, "get_alarm_changes", r.e, r.status)
  /\ Unchanged

RecordAlarmChange(h) ==
  /\ conn[h] # 0
  /\ \E a \in AlarmIds :
       LET r == record_alarm_change(Env(db[UrlOf(h)], noid), [alarm_id |-> a])
       IN  Operation(h, "record_alarm_change", r.e, r.status)
  /\ Unchanged

\* the filters, periods and groupings tried on get_meter_statistics
StatFilters ==
  {NoFilter, [NoFilter EXCEPT !.meter = "cpu"],
   [NoFilter EXCEPT !.meter = "cpu", !.user = "u1", !.start = 1]}

GetMeterStatistics(h) ==
  /\ conn[h] # 0
  /\ \E f \in StatFilters, period \in {<<>>, <<60>>},
        groupby \in {<<>>, <<"user_id">>} :
       LET r == get_meter_statistics(Env(db[UrlOf(h)], noid), f, period,
                                     groupby)
       IN  Operation(h, "get_meter_statistics", r.e, r.status)
  /\ Unchanged

RecordEvents(h) ==
  /\ conn[h] # 0
  /\ \E evs \in {<<>>, <<"e1">>} :
       LET r == record_events(Env(db[UrlOf(h)], noid), evs)
       IN  Operation(h, "record_events", r.e, r.status)
  /\ Unchanged

GetEvents(h) ==
  /\ conn[h] # 0
  /\ \E f \in {None, "e1"} :
       LET r == get_events(Env(db[UrlOf(h)], noid), f)
       IN  Operation(h, "get_events", r.e, r.status)
  /\ Unchanged

(***************************************************************************)
(* ConnectionPool.connect line by line, for callers that construct         *)
(* Connections at the same time.  pc names the source line a caller is     *)
(* about to run.                                                           *)
(***************************************************************************)
\* Connection.__init__ up to the call of CONNECTION_POOL.connect(url)
Enter(h, confurl) ==
  /\ pc[h] = "idle"
  /\ conn[h] = 0
  /\ arg' = [arg EXCEPT ![h] = Replace(confurl, "db2:", "mongodb:")]
  /\ pc' = [pc EXCEPT ![h] = "l140"]
  /\ UNCHANGED <<pool, conn, urlOf, local, version, storeVars, writerVars,
                 queryVars>>

\* if url in self._pool:
L140(h) ==
  /\ pc[h] = "l140"
  /\ pc' = [pc EXCEPT ![h] = IF arg[h] \in DOMAIN pool THEN "l141" ELSE "l145"]
  /\ UNCHANGED <<pool, conn, urlOf, arg, local, version, storeVars,
                 writerVars, queryVars>>

\* client = self._pool.get(url)(); if client: return client
L141(h) ==
  /\ pc[h] = "l141"
  /\ LET client == Deref(pool[arg[h]], Strong(conn, local))
     IN  /\ local' = [local EXCEPT ![h] = client]
         /\ pc' = [pc EXCEPT ![h] = IF client # 0 THEN "l190" ELSE "l145"]
  /\ UNCHANGED <<pool, conn, urlOf, arg, version, storeVars, writerVars,
                 queryVars>>

\* client = pymongo.MongoClient(url, safe=True)
L145(h) ==
  /\ pc[h] = "l145"
  /\ Len(urlOf) < MaxClients
  /\ urlOf' = Append(urlOf, arg[h])
  /\ local' = [local EXCEPT ![h] = Len(urlOf) + 1]
  /\ pc' = [pc EXCEPT ![h] = "l148"]
  /\ UNCHANGED <<pool, conn, arg, version, storeVars, writerVars, queryVars>>

\* self._pool[url] = weakref.ref(client); return client
L148(h) ==
  /\ pc[h] = "l148"
  /\ pool' = (arg[h] :> local[h]) @@ pool
  /\ pc' = [pc EXCEPT ![h] = "l190"]
  /\ UNCHANGED <<conn, urlOf, arg, local, version, storeVars, writerVars,
                 queryVars>>

\* the rest of Connection.__init__: the version check and upgrade
L190(h) ==
  /\ pc[h] = "l190"
  /\ LET e1 == Log(Log(Env(db[arg[h]], noid), "pool", "connect"),
                   "conn", "server_info")
         bad == BadVersion(version[arg[h]])
         e2 == IF bad THEN e1 ELSE upgrade(e1)
     IN  /\ conn' = IF bad THEN conn ELSE [conn EXCEPT ![h] = local[h]]
         /\ db' = [db EXCEPT ![arg[h]] = e2.d]
         /\ noid' = e2.noid
         /\ calls' = e2.calls
         /\ result' = Outcome("__init__",
                              IF bad THEN "StorageBadVersion" ELSE "ok",
                              arg[h], local[h])
  /\ local' = [local EXCEPT ![h] = 0]
  /\ pc' = [pc EXCEPT ![h] = "idle"]
  /\ UNCHANGED <<pool, urlOf, arg, version, history, ndone, nclears,
                 writerVars, queryVars>>

(***************************************************************************)
(* record_metering_data sub-write by sub-write, for writers that call it   *)
(* on the adapter of h1 at the same time.  wpc names the pending sub-write *)
(***************************************************************************)
SubWrite(w, e, next) ==
  /\ db' = [db EXCEPT ![UrlOf("h1")] = e.d]
  /\ noid' = e.noid
  /\ calls' = e.calls
  /\ wpc' = [wpc EXCEPT ![w] = next]
  /\ UNCHANGED <<poolVars, queryVars, nclears, failed>>

Begin(w, data) ==
  /\ wpc[w] = "idle"
  /\ Len(history) < MaxCalls
  /\ wpc' = [wpc EXCEPT ![w] = "user"]
  /\ wdata' = [wdata EXCEPT ![w] = data]
  /\ history' = Append(history, data)
  /\ UNCHANGED <<poolVars, queryVars, db, noid, calls, result, ndone,
                 nclears, failed>>

UserWrite(w) ==
  /\ wpc[w] = "user"
  /\ SubWrite(w, WriteUser(Env(db[UrlOf("h1")], noid), wdata[w]), "project")
  /\ UNCHANGED <<wdata, result, history, ndone>>

ProjectWrite(w) ==
  /\ wpc[w] = "project"
  /\ SubWrite(w, WriteProject(Env(db[UrlOf("h1")], noid), wdata[w]),
              "resource")
  /\ UNCHANGED <<wdata, result, history, ndone>>

ResourceWrite(w) ==
  /\ wpc[w] = "resource"
  /\ SubWrite(w, WriteResource(Env(db[UrlOf("h1")], noid), wdata[w]), "meter")
  /\ UNCHANGED <<wdata, result, history, ndone>>

MeterWrite(w) ==
  /\ wpc[w] = "meter"
  /\ LET r == WriteMeter(Env(db[UrlOf("h1")], noid), wdata[w])
     IN  /\ SubWrite(w, r.e, "idle")
         /\ result' = Outcome("record_metering_data", r.status, UrlOf("h1"),
                              conn["h1"])
         /\ ndone' = IF r.status = "ok" THEN ndone + 1 ELSE ndone
  /\ wdata' = [wdata EXCEPT ![w] = <<>>]
  /\ UNCHANGED history

\* the backend fails the pending sub-write: the error surfaces to the
\* caller and the call ends
WriteFails(w) ==
  /\ wpc[w] # "idle"
  /\ wpc' = [wpc EXCEPT ![w] = "idle"]
  /\ wdata' = [wdata EXCEPT ![w] = <<>>]
  /\ failed' = TRUE
  /\ calls' = <<<<wpc[w], IF wpc[w] = "meter" THEN "insert" ELSE "update">>>>
  /\ result' = Outcome("record_metering_data", "AutoReconnect", UrlOf("h1"),
                       conn["h1"])
  /\ UNCHANGED <<poolVars, queryVars, db, noid, history, ndone, nclears>>

(***************************************************************************)
(* Specifications.                                                         *)
(***************************************************************************)
\* values of the variables a specification does not use
IdleRace ==
  /\ pc = [h \in Holders |-> "idle"]
  /\ arg = [h \in Holders |-> <<>>]
  /\ local = [h \in Holders |-> 0]

IdleStore ==
  /\ history = <<>> /\ ndone = 0 /\ nclears = 0

IdleWriters ==
  /\ wpc = [w \in Writers |-> "idle"]
  /\ wdata = [w \in Writers |-> <<>>]
  /\ failed = FALSE

IdleQuery ==
  /\ qin = <<>>
  /\ qout = [op |-> "none", arg |-> <<>>, status |-> "none", value |-> <<>>]

\* The process has just imported the module: the pool is empty, nothing was
\* ever written to a backend.
InitPool ==
  /\ pool = <<>>
  /\ conn = [h \in Holders |-> 0]
  /\ urlOf = <<>>
  /\ version \in [PoolUrls -> Versions]
  /\ db = [u \in PoolUrls |-> EmptyDb]
  /\ noid = 0
  /\ calls = <<>>
  /\ result = Outcome("import", "ok", <<>>, 0)
  /\ IdleRace /\ IdleStore /\ IdleWriters /\ IdleQuery

NextPool ==
  \E h \in Holders :
    \/ \E u \in ConfUrls : NewConnection(h, u)
    \/ Release(h)
    \/ Upgrade(h)
    \/ Clear(h)

\* adapters constructed, used for upgrade and clear, and dropped, one after
\* the other
SpecPool == InitPool /\ [][NextPool]_vars

\* The adapter of holder h1 has just been constructed on DB2 backends (which
\* report no versionArray) nothing was written to before.
SelfUrl == <<"db2:", "//A/ceilometer">>

Constructed ==
  /\ version = [u \in PoolUrls |-> <<>>]
  /\ LET r == ConnectionInit(<<>>, <<>>, {}, version,
                             [u \in PoolUrls |-> EmptyDb], 0, SelfUrl)
     IN  /\ pool = r.pool
         /\ urlOf = r.urlOf
         /\ conn = [h \in Holders |-> IF h = "h1" THEN r.client ELSE 0]
         /\ db = [u \in PoolUrls |-> IF u = r.url THEN r.e.d ELSE EmptyDb]
         /\ noid = r.e.noid
         /\ calls = r.e.calls
         /\ result = Outcome("__init__", r.status, r.url, r.client)

InitStore == Constructed /\ IdleRace /\ IdleStore /\ IdleWriters /\ IdleQuery

NextStore ==
  \E h \in Holders :
    \/ \E data \in Payloads : RecordMeteringData(h, data)
    \/ Upgrade(h)
    \/ ClearExpiredMeteringData(h)
    \/ GetMeterStatistics(h)
    \/ GetAlarmChanges(h)
    \/ RecordAlarmChange(h)
    \/ RecordEvents(h)
    \/ GetEvents(h)

\* one adapter that is never cleared, its operations called one after the
\* other
SpecStore == InitStore /\ [][NextStore]_vars

\* a drop of clear() raises, as the backend is not reached: the error leaves
\* the call, no handler is around the drops
ClearFails(h) ==
  /\ conn[h] # 0
  /\ nclears < MaxClears
  /\ \E n \in 1..4 :
       Operation(h, "clear", clear_failing(Env(db[UrlOf(h)], noid), n),
                 "AutoReconnect")
  /\ nclears' = nclears + 1
  /\ UNCHANGED <<history, ndone>>

NextUpgrade ==
  \E h \in Holders :
    \/ \E data \in {RefSample} \cup IdSamples : RecordMeteringData(h, data)
    \/ Upgrade(h)
    \/ Clear(h)
    \/ ClearFails(h)

\* one adapter that is written to, cleared, also in part, and upgraded
SpecUpgrade == InitStore /\ [][NextUpgrade]_vars


(***************************************************************************)
(* The filter translation, on every filter.                                *)
(***************************************************************************)
Pending == [op |-> "none", arg |-> <<>>, status |-> "none", value |-> <<>>]

MakeQueryFromFilter ==
  /\ qout = Pending
  /\ \E require_meter \in BOOLEAN :
       LET r == make_query_from_filter(qin, require_meter)
       IN  qout' = [op |-> "make_query_from_filter",
                    arg |-> <<require_meter>>,
                    status |-> r.status, value |-> r.value]
  /\ UNCHANGED <<poolVars, storeVars, writerVars, qin>>

Limits == {NoLimit} \cup {<<n>> : n \in 0..MaxCalls}

GetSamples(h, sample_filter, limit) ==
  /\ conn[h] # 0
  /\ \E r \in get_samples(Env(db[UrlOf(h)], noid), sample_filter, limit) :
       /\ db' = [db EXCEPT ![UrlOf(h)] = r.e.d]
       /\ noid' = r.e.noid
       /\ calls' = r.e.calls
       /\ result' = Outcome("get_samples", r.status, UrlOf(h), conn[h])
       /\ qout' = [op |-> "get_samples", arg |-> limit,
                   status |-> r.status, value |-> r.value]
  /\ UNCHANGED <<poolVars, writerVars, history, ndone, nclears>>

GetSamplesOf ==
  /\ qout = Pending
  /\ \E limit \in Limits : GetSamples("h1", qin, limit)
  /\ UNCHANGED qin

InitQuery ==
  /\ Constructed
  /\ IdleRace /\ IdleStore /\ IdleWriters
  /\ qin \in SampleFilters
  /\ qout = Pending

NextQuery == MakeQueryFromFilter \/ GetSamplesOf

\* a filter is drawn and translated
SpecQuery == InitQuery /\ [][NextQuery]_vars


(***************************************************************************)
(* The range builder and the metadata codec, on every input.               *)
(***************************************************************************)
MakeTimestampRange ==
  /\ qout.op = "none"
  /\ "start" \in DOMAIN qin
  /\ qout' = [op |-> "make_timestamp_range", arg |-> <<>>, status |-> "ok",
              value |-> make_timestamp_range(qin.start, qin.end,
                                             qin.start_timestamp_op,
                                             qin.end_timestamp_op)]
  /\ UNCHANGED <<poolVars, storeVars, writerVars, qin>>

EncodeMatchingMetadata ==
  /\ qout.op = "none"
  /\ "type" \in DOMAIN qin
  /\ qin.type # "list"
  /\ \E v \in _encode_matching_metadata(qin) :
       qout' = [op |-> "encode", arg |-> <<>>, status |-> "ok", value |-> v]
  /\ UNCHANGED <<poolVars, storeVars, writerVars, qin>>

\* decode what was just encoded, or else the input
DecodeMatchingMetadata ==
  /\ qout.op \in {"none", "encode"}
  /\ "type" \in DOMAIN qin
  /\ LET r == _decode_matching_metadata(IF qout.op = "encode"
                                        THEN qout.value ELSE qin)
     IN  qout' = [op |-> "decode", arg |-> <<qout.op>>, status |-> r.status,
                  value |-> r.value]
  /\ UNCHANGED <<poolVars, storeVars, writerVars, qin>>

InitPure ==
  /\ Constructed
  /\ IdleRace /\ IdleStore /\ IdleWriters
  /\ qin \in RangeArgs \cup FlatMaps \cup PairLists \cup {PyNone}
  /\ qout = Pending

NextPure ==
  \/ MakeTimestampRange
  \/ EncodeMatchingMetadata
  \/ DecodeMatchingMetadata

\* an input is drawn and a pure function applied to it
SpecPure == InitPure /\ [][NextPure]_vars


(***************************************************************************)
(* The read path, on a store that is written to.                           *)
(***************************************************************************)
\* the data dictionaries written before and between the reads
ReadPayloads ==
  {s \in Payloads :
     Changed(s) \subseteq {"user_id", "project_id", "resource_id", "source",
                           "counter_name", "timestamp", "resource_metadata"}}

\* a store that an earlier release of the driver wrote to: its sample and
\* its meter descriptor have no counter_unit, its alarm has its
\* matching_metadata as a flat map
Legacy(d) ==
  [d EXCEPT
     !.user = @ \cup {[_id |-> "u1", source |-> <<"s1">>]},
     !.project = @ \cup {[_id |-> "p1", source |-> <<"s1">>]},
     !.resource = @ \cup
       {[_id |-> "r1", project_id |-> "p1", user_id |-> "u1",
         metadata |-> {<<"zone", "z1">>}, source |-> "s1",
         meter |-> <<[counter_name |-> "cpu", counter_type |-> "gauge"]>>]},
     !.meter = @ \cup
       {[_id |-> "old1", user_id |-> "u1", project_id |-> "p1",
         resource_id |-> "r1", source |-> "s1", counter_name |-> "cpu",
         counter_type |-> "gauge", counter_volume |-> 42, timestamp |-> 1,
         resource_metadata |-> {<<"zone", "z1">>}]},
     !.alarm = @ \cup
       {[_id |-> "old2", alarm_id |-> "a1", name |-> "n1",
         enabled |-> "True", user_id |-> "u1", project_id |-> "p1",
         matching_metadata |-> Dict({<<"host", "h1">>})]}]

\* the filters tried on get_samples
ReadFilters ==
  {NoFilter,
   [NoFilter EXCEPT !.meter = "cpu"],
   [NoFilter EXCEPT !.meter = "disk"],
   [NoFilter EXCEPT !.user = "u2"],
   [NoFilter EXCEPT !.resource = "r1"],
   [NoFilter EXCEPT !.start = MaxTs],
   [NoFilter EXCEPT !.start = 1, !.start_timestamp_op = "gt"],
   [NoFilter EXCEPT !.end = MaxTs],
   [NoFilter EXCEPT !.metaquery = (<<"metadata", "host">> :> "h1")],
   [NoFilter EXCEPT !.user = "u1", !.project = "p1", !.source = "s1",
                    !.meter = "cpu", !.start = 1, !.end = 1,
                    !.end_timestamp_op = "le"]}

\* the arguments tried on get_resources, from the defaults
ResourceArgs ==
  LET NoResourceArgs ==
        [user |-> None, project |-> None, source |-> None,
         start_timestamp |-> NoTs, start_timestamp_op |-> None,
         end_timestamp |-> NoTs, end_timestamp_op |-> None,
         metaquery |-> <<>>, resource |-> None, pagination |-> None]
      plain ==
        {NoResourceArgs,
         [NoResourceArgs EXCEPT !.user = "u1"],
         [NoResourceArgs EXCEPT !.user = "u2"],
         [NoResourceArgs EXCEPT !.project = "p1", !.source = "s1"],
         [NoResourceArgs EXCEPT !.resource = "r2"],
         [NoResourceArgs EXCEPT !.metaquery = (<<"metadata", "host">> :> "h1")],
         [NoResourceArgs EXCEPT !.start_timestamp = MaxTs],
         [NoResourceArgs EXCEPT !.start_timestamp = 1,
                                !.start_timestamp_op = "gt"],
         [NoResourceArgs EXCEPT !.end_timestamp = MaxTs],
         [NoResourceArgs EXCEPT !.end_timestamp = 1,
                                !.end_timestamp_op = "le"],
         [NoResourceArgs EXCEPT !.user = "u1", !.start_timestamp = 1,
                                !.end_timestamp = MaxTs]}
  IN  plain \cup
      {[a EXCEPT !.pagination = "page"] :
         a \in {b \in plain : b.project = None /\ b.end_timestamp = NoTs /\
                               b.resource = None /\ b.metaquery = <<>> /\
                               b.start_timestamp_op = None}}

\* the arguments tried on get_meters, from the defaults
MeterArgs ==
  LET NoMeterArgs ==
        [user |-> None, project |-> None, resource |-> None,
         source |-> None, metaquery |-> <<>>, pagination |-> None]
  IN
  {NoMeterArgs,
   [NoMeterArgs EXCEPT !.user = "u1"],
   [NoMeterArgs EXCEPT !.resource = "r1", !.project = "p1"],
   [NoMeterArgs EXCEPT !.metaquery = (<<"metadata", "host">> :> "h1")],
   [NoMeterArgs EXCEPT !.pagination = "page"],
   [NoMeterArgs EXCEPT !.user = "u1", !.pagination = "page"]}

\* the arguments tried on get_alarms, from the defaults (enabled=True)
AlarmArgs ==
  LET NoAlarmArgs ==
        [name |-> None, user |-> None, project |-> None, enabled |-> "True",
         alarm_id |-> None, pagination |-> None]
  IN
  {NoAlarmArgs,
   [NoAlarmArgs EXCEPT !.enabled = None],
   [NoAlarmArgs EXCEPT !.enabled = "False", !.name = "n1"],
   [NoAlarmArgs EXCEPT !.enabled = None, !.alarm_id = "a1"],
   [NoAlarmArgs EXCEPT !.pagination = "page"],
   [NoAlarmArgs EXCEPT !.alarm_id = "a1", !.pagination = "page"]}

\* no read was made yet: the writes come first, then a read is made
NoRead ==
  qout.op \notin {"get_samples", "get_resources", "get_meters", "get_alarms"}

\* an operation of the adapter of holder h, called with args, has the
\* outcome r
Call(h, op, args, r) ==
  /\ db' = [db EXCEPT ![UrlOf(h)] = r.e.d]
  /\ noid' = r.e.noid
  /\ calls' = r.e.calls
  /\ result' = Outcome(op, r.status, UrlOf(h), conn[h])
  /\ qin' = args
  /\ qout' = [op |-> op, arg |-> <<>>, status |-> r.status,
              value |-> r.value]
  /\ UNCHANGED <<poolVars, writerVars, ndone, nclears>>

\* a read, iterated to its end
Read(h, op, args, r) == Call(h, op, args, r) /\ UNCHANGED history

StoreSample(h) ==
  /\ NoRead
  /\ \E data \in ReadPayloads : RecordMeteringData(h, data)

\* a positive limit is tried with the filters on meter, resource and end
ReadSamples(h) ==
  /\ NoRead
  /\ \E f \in ReadFilters, limit \in {NoLimit, <<0>>, <<1>>, <<2>>} :
       /\ limit \in {<<1>>, <<2>>} =>
            f.user = None /\ f.start = NoTs /\ f.metaquery = <<>>
       /\ GetSamples(h, f, limit)
       /\ qin' = f

GetResources(h) ==
  /\ conn[h] # 0
  /\ NoRead
  /\ \E a \in ResourceArgs :
       \E r \in get_resources(Env(db[UrlOf(h)], noid), a) :
         Read(h, "get_resources", a, r)

GetMeters(h) ==
  /\ conn[h] # 0
  /\ NoRead
  /\ \E a \in MeterArgs :
       \E r \in get_meters(Env(db[UrlOf(h)], noid), a) :
         Read(h, "get_meters", a, r)

GetAlarms(h) ==
  /\ conn[h] # 0
  /\ NoRead
  /\ \E a \in AlarmArgs :
       \E r \in get_alarms(Env(db[UrlOf(h)], noid), a) :
         Read(h, "get_alarms", a, r)

\* The adapter of holder h1 has just been constructed, on a backend nothing
\* was written to or on one that holds the documents of an earlier release.
InitReads ==
  /\ version = [u \in PoolUrls |-> <<>>]
  /\ LET r == ConnectionInit(<<>>, <<>>, {}, version,
                             [u \in PoolUrls |-> EmptyDb], 0, SelfUrl)
     IN  /\ pool = r.pool
         /\ urlOf = r.urlOf
         /\ conn = [h \in Holders |-> IF h = "h1" THEN r.client ELSE 0]
         /\ db \in {[u \in PoolUrls |-> IF u = r.url THEN d ELSE EmptyDb] :
                      d \in {r.e.d, Legacy(r.e.d)}}
         /\ noid = r.e.noid
         /\ calls = r.e.calls
         /\ result = Outcome("__init__", r.status, r.url, r.client)
  /\ IdleRace /\ IdleStore /\ IdleWriters /\ IdleQuery

NextReads ==
  \E h \in Holders :
    \/ StoreSample(h)
    \/ ReadSamples(h)
    \/ GetResources(h)
    \/ GetMeters(h)
    \/ GetAlarms(h)

\* one adapter, written to and then read from
SpecReads == InitReads /\ [][NextReads]_vars

(***************************************************************************)
(* The alarm store, written to and read from.                              *)
(***************************************************************************)
\* an alarm write; create_alarm is update_alarm under another name
AlarmWrite(h, op, args, r) ==
  /\ Len(history) < MaxCalls
  /\ Call(h, op, args, r)
  /\ history' = Append(history, args)

UpdateAlarm(h) ==
  /\ conn[h] # 0
  /\ NoRead
  /\ \E alarm \in Alarms :
       \E r \in update_alarm(Env(db[UrlOf(h)], noid), alarm) :
         AlarmWrite(h, "update_alarm", alarm, r)

CreateAlarm(h) ==
  /\ conn[h] # 0
  /\ NoRead
  /\ \E alarm \in Alarms :
       \E r \in update_alarm(Env(db[UrlOf(h)], noid), alarm) :
         AlarmWrite(h, "create_alarm", alarm, r)

DeleteAlarm(h) ==
  /\ conn[h] # 0
  /\ NoRead
  /\ \E alarm_id \in AlarmIds :
       AlarmWrite(h, "delete_alarm", [alarm_id |-> alarm_id],
                  delete_alarm(Env(db[UrlOf(h)], noid), alarm_id))

NextAlarms ==
  \E h \in Holders :
    \/ UpdateAlarm(h)
    \/ CreateAlarm(h)
    \/ DeleteAlarm(h)
    \/ GetAlarms(h)

\* the alarm store of one adapter, written to and then read from
SpecAlarms == InitReads /\ [][NextAlarms]_vars

(***************************************************************************)
(* The alarm store.                                                        *)
(***************************************************************************)

NextRace ==
  \E h \in Holders :
    \/ \E u \in ConfUrls : Enter(h, u)
    \/ L140(h)
    \/ L141(h)
    \/ L145(h)
    \/ L148(h)
    \/ L190(h)
    \/ Release(h)

\* Connections constructed and dropped by callers running at the same time
SpecRace == InitPool /\ [][NextRace]_vars

NextWriters ==
  \E w \in Writers :
    \/ \E data \in WriterPayloads : Begin(w, data)
    \/ UserWrite(w)
    \/ ProjectWrite(w)
    \/ ResourceWrite(w)
    \/ MeterWrite(w)
    \/ WriteFails(w)

\* record_metering_data called by writers running at the same time
SpecWriters == InitStore /\ [][NextWriters]_vars


(***************************************************************************)
(* Properties of the connection pool and of the construction.              *)
(***************************************************************************)
\* the clients of url u that some holder holds
HeldFor(u) == {conn[h] : h \in {g \in Holders : conn[g] # 0 /\ UrlOf(g) = u}}

\* C1: a connect(A) made while some holder still holds a connection that an
\* earlier connect(A) returned returns that same instance and establishes
\* nothing; when no holder holds one, it establishes and returns a new
\* instance.
PoolReuse ==
  [][result'.op = "__init__" =>
       LET u == result'.url
           c == result'.client
       IN  IF HeldFor(u) # {}
           THEN c \in HeldFor(u) /\ urlOf' = urlOf
           ELSE /\ c \notin 1..Len(urlOf)
                /\ urlOf' = Append(urlOf, u)
                /\ c = Len(urlOf')]_vars

\* both cases happened: a second client was established for a url after its
\* first one was released, and two holders share it
PoolReuseWitness ==
  /\ result.op = "__init__"
  /\ conn["h1"] = conn["h2"]
  /\ conn["h1"] > 1
  /\ \E c \in 1..(conn["h1"] - 1) : urlOf[c] = urlOf[conn["h1"]]

\* C5: callers that connect to one address at the same time end up with one
\* and the same connection instance.
ConnectAtomic ==
  \A g, h \in Holders :
    (conn[g] # 0 /\ conn[h] # 0 /\ UrlOf(g) = UrlOf(h)) => conn[g] = conn[h]

\* the positions of the calls of an operation in a trace of backend calls
CallsOf(trace, ops) == {i \in 1..Len(trace) : trace[i][2] \in ops}

\* C7: an upgrade run on a store whose resource collection has no index
\* metadata creates the three indexes, each once, and leaves index metadata
\* behind; a run that finds index metadata creates no index and inserts or
\* removes no document.  So of two runs in sequence on an uninitialised
\* store the first creates the indexes and the second does nothing.
SchemaOnce ==
  [][(result'.op = "upgrade" \/
      (result'.op = "__init__" /\ result'.status = "ok")) =>
       LET u == result'.url
           made == CallsOf(calls', {"ensure_index"})
       IN  IF db[u].idx.resource = {}
           THEN /\ Cardinality(made) = 3
                /\ {<<calls'[i][1], calls'[i][2]>> : i \in made} =
                     {<<"resource", "ensure_index">>,
                      <<"meter", "ensure_index">>}
                /\ db'[u].idx.resource = {"_id_", "resource_idx"}
                /\ db'[u].idx.meter = {"_id_", "meter_idx", "timestamp_idx"}
           ELSE /\ CallsOf(calls', {"ensure_index", "insert", "remove",
                                    "update", "drop"}) = {}
                /\ db' = db]_vars

\* a second run has happened, and did nothing
SchemaOnceWitness ==
  /\ result.op = "upgrade"
  /\ calls = <<<<"resource", "index_information">>>>
  /\ "resource_idx" \in db[result.url].idx.resource

\* a versionArray below 2.2
Below22(v) == v # <<>> /\ (v[1] < 2 \/ (v[1] = 2 /\ v[2] < 2))

\* C8: construction connects through the pool, then asks the server for its
\* version, then ensures the schema; a version below 2.2 fails it with the
\* bad-version error before any insert or index creation.
InitOrder ==
  [][result'.op = "__init__" =>
       LET u == result'.url
       IN  /\ Len(calls') >= 2
           /\ calls'[1] = <<"pool", "connect">>
           /\ calls'[2] = <<"conn", "server_info">>
           /\ IF Below22(version[u])
              THEN /\ result'.status = "StorageBadVersion"
                   /\ Len(calls') = 2
                   /\ db' = db
                   /\ conn' = conn
              ELSE /\ result'.status = "ok"
                   /\ Len(calls') >= 3
                   /\ calls'[3] = <<"resource", "index_information">>
                   /\ \E h \in Holders : conn[h] = 0 /\ conn'[h] = result'.client]_vars

\* a construction has failed on the version of its backend
InitOrderWitness ==
  /\ result.op = "__init__"
  /\ result.status = "StorageBadVersion"
  /\ Below22(version[result.url])
  /\ db[result.url] = EmptyDb


(***************************************************************************)
(* Properties of the write path.                                           *)
(***************************************************************************)
\* the database of the adapter of h1
Store == db[UrlOf("h1")]

Written == Range(history)

\* the documents of a collection with an _id
DocsOf(coll, id) == {o \in coll : o._id = id}

\* one document for each identity written, none for any other
OnePerIdentity ==
  /\ \A d \in Written :
       /\ Cardinality(DocsOf(Store.user, d.user_id)) = 1
       /\ Cardinality(DocsOf(Store.project, d.project_id)) = 1
       /\ Cardinality(DocsOf(Store.resource, d.resource_id)) = 1
  /\ {o._id : o \in Store.user} = {d.user_id : d \in Written}
  /\ {o._id : o \in Store.project} = {d.project_id : d \in Written}
  /\ {o._id : o \in Store.resource} = {d.resource_id : d \in Written}

\* C2 as claimed: one document per identity, and as many raw samples as
\* calls were made.
SamplePerCall ==
  nclears = 0 => OnePerIdentity /\ Cardinality(Store.meter) = Len(history)

\* C2: one document per identity written, and as many raw samples as calls
\* returned without error; every call returns without error when no payload
\* carries an '_id' of its caller.
SamplePerDoneCall ==
  nclears = 0 =>
    /\ OnePerIdentity
    /\ Cardinality(Store.meter) = ndone
    /\ (\A d \in Written : "_id" \notin DOMAIN d) => ndone = Len(history)

\* two calls with one payload left one user, one project, one resource and
\* two raw samples
SamplePerDoneCallWitness ==
  /\ nclears = 0
  /\ Len(history) = 2
  /\ history[1] = history[2]
  /\ Cardinality(Store.user) = 1
  /\ Cardinality(Store.project) = 1
  /\ Cardinality(Store.resource) = 1
  /\ Cardinality(Store.meter) = 2

\* the elements of an array field of the document with an _id; none when
\* there is no such document
Elements(coll, id, field) ==
  UNION {Range(o[field]) : o \in DocsOf(coll, id)}

\* C3: a record_metering_data call leaves in the source set of every user
\* and project and in the meter set of every resource what was there
\* before, and adds what it writes: its source to its user and its project,
\* its (counter_name, counter_type, counter_unit) to its resource.
SetsGrow ==
  [][Len(history') = Len(history) + 1 =>
       LET d == history'[Len(history')]
           old == db[result'.url]
           new == db'[result'.url]
       IN  /\ \A o \in old.user :
                Range(o.source) \subseteq Elements(new.user, o._id, "source")
           /\ \A o \in old.project :
                Range(o.source) \subseteq
                  Elements(new.project, o._id, "source")
           /\ \A o \in old.resource :
                Range(o.meter) \subseteq
                  Elements(new.resource, o._id, "meter")
           /\ d.source \in Elements(new.user, d.user_id, "source")
           /\ d.source \in Elements(new.project, d.project_id, "source")
           /\ MeterOf(d) \in Elements(new.resource, d.resource_id, "meter")]_vars

\* a user with two sources and a resource with two meters
SetsGrowWitness ==
  /\ \E o \in Store.user : Len(o.source) = 2
  /\ \E o \in Store.resource : Len(o.meter) = 2

\* the data of the latest call for a resource id
Latest(id) ==
  history[CHOOSE i \in 1..Len(history) :
            /\ history[i].resource_id = id
            /\ \A j \in (i + 1)..Len(history) : history[j].resource_id # id]

\* C4: when every call made has completed, each resource document carries
\* the project_id, user_id, metadata and source of the latest call for its
\* resource id.
LastWriteWins ==
  ndone = Len(history) =>
    \A o \in Store.resource :
      /\ \E d \in Written : d.resource_id = o._id
      /\ o.project_id = Latest(o._id).project_id
      /\ o.user_id = Latest(o._id).user_id
      /\ o.metadata = Latest(o._id).resource_metadata
      /\ o.source = Latest(o._id).source

\* a resource was written twice, with different metadata
LastWriteWinsWitness ==
  /\ ndone = 2
  /\ Len(history) = 2
  /\ history[1].resource_id = history[2].resource_id
  /\ history[1].resource_metadata # history[2].resource_metadata
  /\ \E o \in Store.resource : o.metadata = history[2].resource_metadata

\* C6: when the calls of the writers have all run to their end, in whatever
\* order their sub-writes were made, the source set of every user and of
\* every project and the meter set of every resource hold what all the
\* calls contributed, and nothing else.
UnionOfWrites ==
  ((\A w \in Writers : wpc[w] = "idle") /\ ~failed) =>
    /\ \A d \in Written :
         /\ Elements(Store.user, d.user_id, "source") =
              {c.source : c \in {b \in Written : b.user_id = d.user_id}}
         /\ Elements(Store.project, d.project_id, "source") =
              {c.source : c \in {b \in Written : b.project_id = d.project_id}}
         /\ Elements(Store.resource, d.resource_id, "meter") =
              {MeterOf(c) : c \in {b \in Written : b.resource_id = d.resource_id}}
    /\ OnePerIdentity

\* two calls on one resource ran to their end and their sub-writes
\* interleaved: the resource carries the source of the call that began
\* first, while its user has the sources of both
UnionOfWritesWitness ==
  /\ \A w \in Writers : wpc[w] = "idle"
  /\ ~failed
  /\ ndone = 2
  /\ Len(history) = 2
  /\ history[1].resource_id = history[2].resource_id
  /\ history[1].source # history[2].source
  /\ \E o \in Store.resource : o.source = history[1].source
  /\ \E o \in Store.user : Len(o.source) = 2

(***************************************************************************)
(* Properties of the operations that are not implemented.                  *)
(***************************************************************************)
NotImplementedOps ==
  {"clear_expired_metering_data", "get_meter_statistics",
   "get_alarm_changes", "record_alarm_change", "record_events",
   "get_events"}

\* C9: each of the six operations raises the not-implemented error, issues
\* no backend call and leaves every collection as it was.
NotImplemented ==
  [][result'.op \in NotImplementedOps =>
       /\ result'.status = "NotImplementedError"
       /\ calls' = <<>>
       /\ db' = db]_vars

\* get_meter_statistics has raised on a store that holds samples
NotImplementedWitness ==
  /\ result.op = "get_meter_statistics"
  /\ result.status = "NotImplementedError"
  /\ Store.meter # {}

(***************************************************************************)
(* Properties of the filter translation.                                   *)
(***************************************************************************)
\* C10: a filter without a meter name is refused with the usage error when
\* the meter is required, and yields no query; when it is not required, and
\* in get_samples, it is translated into a query without counter_name.
MeterRequired ==
  ~Truthy(qin.meter) =>
    /\ (qout.op = "make_query_from_filter" /\ qout.arg = <<TRUE>>) =>
         qout.status = "RuntimeError" /\ DOMAIN qout.value = {}
    /\ (qout.op = "make_query_from_filter" /\ qout.arg = <<FALSE>>) =>
         qout.status = "ok" /\ Key("counter_name") \notin DOMAIN qout.value
    /\ (qout.op = "get_samples") =>
         /\ qout.status = "ok"
         /\ qout.arg # <<0>> =>
              /\ Len(calls) = 1
              /\ calls[1][2] = "find"
              /\ Key("counter_name") \notin DOMAIN calls[1][3]

\* a filter with other fields set and no meter was refused
MeterRequiredWitness ==
  /\ qout.op = "make_query_from_filter"
  /\ qout.status = "RuntimeError"
  /\ qin.meter = None
  /\ qin.user = "u1"
  /\ qin.start # NoTs

(***************************************************************************)
(* Properties of the range builder and of the metadata codec.              *)
(***************************************************************************)
\* C11: the range fragment has one bound for each endpoint given and no
\* other: the lower bound is $gte, and $gt only when the operator is 'gt';
\* the upper bound is $lt, and $lte only when the operator is 'le'; no
\* endpoint given yields the empty fragment, not an error.
RangeBounds ==
  qout.op = "make_timestamp_range" =>
    LET r == qout.value
        lower == {"$gt", "$gte"} \cap DOMAIN r
        upper == {"$lt", "$lte"} \cap DOMAIN r
    IN  /\ qout.status = "ok"
        /\ DOMAIN r = lower \cup upper
        /\ IF qin.start = NoTs THEN lower = {}
           ELSE /\ lower = {IF qin.start_timestamp_op = "gt"
                            THEN "$gt" ELSE "$gte"}
                /\ \A k \in lower : r[k] = qin.start
        /\ IF qin.end = NoTs THEN upper = {}
           ELSE /\ upper = {IF qin.end_timestamp_op = "le"
                            THEN "$lte" ELSE "$lt"}
                /\ \A k \in upper : r[k] = qin.end

\* both endpoints were given with operators that mean nothing to the
\* builder, and the defaults came out
RangeBoundsWitness ==
  /\ qout.op = "make_timestamp_range"
  /\ qin.start = 1 /\ qin.end = 2
  /\ qin.start_timestamp_op = "lt" /\ qin.end_timestamp_op = "ge"
  /\ DOMAIN qout.value = {"$gte", "$lt"}

\* the keys of the elements of a list
KeysOf(elems) == {elems[i].key : i \in DOMAIN elems}

\* C12: decoding what the encoder made of a flat map gives the flat map
\* back; decoding a flat map returns it as it is; decoding a list of
\* {key, value} elements gives the flat map that has, for each key of the
\* list, the value of the last element with that key.
CodecRoundTrip ==
  qout.op = "decode" =>
    /\ (qout.arg = <<"encode">> /\ qin.type = "dict") =>
         qout.status = "ok" /\ qout.value = qin
    /\ (qout.arg = <<"none">> /\ qin.type = "dict") =>
         qout.status = "ok" /\ qout.value = qin
    /\ (qout.arg = <<"none">> /\ qin.type = "list") =>
         /\ qout.status = "ok"
         /\ qout.value.type = "dict"
         /\ {p[1] : p \in qout.value.val} = KeysOf(qin.val)
         /\ \A i \in DOMAIN qin.val :
              (\A j \in DOMAIN qin.val : j > i => qin.val[j].key # qin.val[i].key)
                => <<qin.val[i].key, qin.val[i].value>> \in qout.value.val
         /\ Cardinality(qout.value.val) = Cardinality(KeysOf(qin.val))

\* a map of two keys came back from its encoding
CodecRoundTripWitness ==
  /\ qout.op = "decode"
  /\ qout.arg = <<"encode">>
  /\ qin.type = "dict"
  /\ Cardinality(qin.val) = 2
  /\ qout.value = qin

(***************************************************************************)
(* Properties of the read path.                                            *)
(***************************************************************************)
\* C13: get_samples with a limit of 0 yields the empty sequence, whatever
\* the filter and the store, and issues no backend call.
LimitZero ==
  [][(result'.op = "get_samples" /\ qout'.arg = <<0>>) =>
       /\ qout'.status = "ok"
       /\ qout'.value = <<>>
       /\ calls' = <<>>
       /\ db' = db]_vars

\* a limit of 0 was given with a filter that stored samples satisfy
LimitZeroWitness ==
  /\ result.op = "get_samples"
  /\ qout.arg = <<0>>
  /\ qin.meter = "cpu"
  /\ \E d \in Store.meter : d.counter_name = "cpu"
  /\ qout.value = <<>>

\* a timestamp is inside the bounds of a filter
Within(t, start, start_op, end, end_op) ==
  /\ start # NoTs => IF start_op = "gt" THEN t > start ELSE t >= start
  /\ end # NoTs => IF end_op = "le" THEN t <= end ELSE t < end

\* a raw sample satisfies every constraint of a sample filter
Satisfies(d, f) ==
  /\ f.user # None => d.user_id = f.user
  /\ f.project # None => d.project_id = f.project
  /\ f.meter # None => d.counter_name = f.meter
  /\ f.resource # None => d.resource_id = f.resource
  /\ f.source # None => d.source = f.source
  /\ Within(d.timestamp, f.start, f.start_timestamp_op, f.end,
            f.end_timestamp_op)
  /\ \A k \in DOMAIN f.metaquery :
       k[1] = "metadata" /\ <<k[2], f.metaquery[k]>> \in d.resource_metadata

\* a yielded sample shows a stored one: the same fields but the '_id',
\* and the unit '' when none is stored
Shows(sample, d) ==
  /\ DOMAIN sample = (DOMAIN d \ {"_id"}) \cup {"counter_unit"}
  /\ \A k \in DOMAIN d \ {"_id"} : sample[k] = d[k]
  /\ "counter_unit" \notin DOMAIN d => sample.counter_unit = ""

\* C14: get_samples with no limit or a positive one yields stored raw
\* samples that satisfy the filter, each stored sample at most once, in
\* non-increasing order of timestamp: all of them without a limit, else
\* min(limit, matches) of them, and none left out is later than one
\* yielded; no sample yielded has an '_id', and one stored without a unit
\* has the unit ''.
SamplesRead ==
  [][(result'.op = "get_samples" /\ qout'.arg # <<0>>) =>
       LET matching == {d \in db[result'.url].meter : Satisfies(d, qin')}
           v == qout'.value
           n == Len(v)
       IN  /\ qout'.status = "ok"
           /\ n = IF qout'.arg = NoLimit \/ Cardinality(matching) < qout'.arg[1]
                  THEN Cardinality(matching) ELSE qout'.arg[1]
           /\ \A i, j \in 1..n : i < j => v[i].timestamp >= v[j].timestamp
           /\ \A i \in 1..n : "_id" \notin DOMAIN v[i]
           /\ \E c \in [1..n -> matching] :
                /\ \A i, j \in 1..n : i # j => c[i] # c[j]
                /\ \A i \in 1..n : Shows(v[i], c[i])
                /\ \A d \in matching \ Range(c) :
                     \A i \in 1..n : d.timestamp <= v[i].timestamp
           /\ db' = db]_vars

\* of three stored samples the two latest were yielded, the later first,
\* the second a sample stored without a unit
SamplesReadWitness ==
  /\ result.op = "get_samples"
  /\ qout.arg = <<2>>
  /\ Cardinality(Store.meter) = 3
  /\ qin = NoFilter
  /\ Len(qout.value) = 2
  /\ qout.value[1].timestamp > qout.value[2].timestamp
  /\ qout.value[2].counter_unit = ""

\* a raw sample is of the owner, source and resource get_resources was
\* asked for, and has the metadata asked for
OfOwner(d, a) ==
  /\ a.user # None => d.user_id = a.user
  /\ a.project # None => d.project_id = a.project
  /\ a.source # None => d.source = a.source
  /\ a.resource # None => d.resource_id = a.resource
  /\ \A k \in DOMAIN a.metaquery :
       k[1] = "metadata" /\ <<k[2], a.metaquery[k]>> \in d.resource_metadata

\* a yielded Resource is made from a document of the resource collection
FromDocument(res, r) ==
  /\ res.resource_id = r._id
  /\ res.user_id = r.user_id
  /\ res.project_id = r.project_id
  /\ res.source = r.source
  /\ res.metadata = r.metadata
  /\ Len(res.meter) = Len(r.meter)
  /\ \A i \in DOMAIN r.meter :
       /\ res.meter[i].counter_name = r.meter[i].counter_name
       /\ res.meter[i].counter_type = r.meter[i].counter_type

\* whether a call of get_resources gave a time bound
TimeBound(a) == a.start_timestamp # NoTs \/ a.end_timestamp # NoTs

\* C15: get_resources with a time bound yields the resources that have a
\* raw sample of the owner, source and resource asked for with a timestamp
\* inside the bounds, each once and made from its document in the resource
\* collection, and no other resource.
ResourcesInRange ==
  [][(result'.op = "get_resources" /\ qin'.pagination = None /\
      TimeBound(qin')) =>
       LET a == qin'
           store == db[result'.url]
           hit == {d.resource_id :
                     d \in {m \in store.meter :
                              /\ OfOwner(m, a)
                              /\ Within(m.timestamp, a.start_timestamp,
                                        a.start_timestamp_op, a.end_timestamp,
                                        a.end_timestamp_op)}}
           v == qout'.value
       IN  /\ qout'.status = "ok"
           /\ {v[i].resource_id : i \in DOMAIN v} = hit
           /\ Len(v) = Cardinality(hit)
           /\ \A i \in DOMAIN v : \E r \in store.resource : FromDocument(v[i], r)
           /\ db' = db]_vars

\* of two resources with samples one was yielded: the other has no sample
\* inside the bounds
ResourcesInRangeWitness ==
  /\ result.op = "get_resources"
  /\ qin.pagination = None
  /\ qin.start_timestamp = MaxTs
  /\ Len(qout.value) = 1
  /\ {d.resource_id : d \in Store.meter} = {"r1", "r2"}

\* C16: a Resource yielded by get_resources without time bounds has the
\* user_id, the project_id and the source that were asked for.
OwnedAsRequested ==
  [][(result'.op = "get_resources" /\ qin'.pagination = None /\
      ~TimeBound(qin')) =>
       \A i \in DOMAIN qout'.value :
         /\ qin'.user # None => qout'.value[i].user_id = qin'.user
         /\ qin'.project # None => qout'.value[i].project_id = qin'.project
         /\ qin'.source # None => qout'.value[i].source = qin'.source]_vars

PagedOps == {"get_resources", "get_meters", "get_alarms"}

\* C17: get_resources, get_meters and get_alarms called with a pagination
\* raise the not-implemented error whatever the other arguments and the
\* store, issue no backend call and yield nothing.
NoPagination ==
  [][(result'.op \in PagedOps /\ qin'.pagination # None) =>
       /\ qout'.status = "NotImplementedError"
       /\ qout'.value = <<>>
       /\ calls' = <<>>
       /\ db' = db]_vars

\* get_resources was refused a pagination on a store that holds a resource
\* its other arguments select
NoPaginationWitness ==
  /\ result.op = "get_resources"
  /\ result.status = "NotImplementedError"
  /\ qin.pagination = "page"
  /\ qin.user = "u1"
  /\ \E d \in Store.meter : d.user_id = "u1"

(***************************************************************************)
(* Properties of the alarm store.                                          *)
(***************************************************************************)
\* the pairs of a stored matching_metadata, of either shape
PairsOf(m) ==
  IF m.type = "dict" THEN m.val
  ELSE {<<m.val[i].key, m.val[i].value>> : i \in DOMAIN m.val}

AlarmDelete ==
  [][result'.op = "delete_alarm" =>
       LET id == qin'.alarm_id
           old == db[result'.url]
           new == db'[result'.url]
       IN  /\ result'.status = "ok"
           /\ AlarmsOf(new.alarm, id) = {}
           /\ new.alarm = old.alarm \ AlarmsOf(old.alarm, id)
           /\ \A c \in Collections : new[c] = old[c]
           /\ new.idx = old.idx
           /\ AlarmsOf(old.alarm, id) = {} => db' = db]_vars

\* an alarm was deleted that is not stored, next to one that is
AlarmDeleteWitness ==
  /\ result.op = "delete_alarm"
  /\ result.status = "ok"
  /\ Len(history) = 2
  /\ history[1].alarm_id = "a1"
  /\ "name" \in DOMAIN history[1]
  /\ history[2] = [alarm_id |-> "a2"]
  /\ \E o \in Store.alarm : o.alarm_id = "a1"

(***************************************************************************)
(* Properties of the sub-writes of record_metering_data.                   *)
(***************************************************************************)
\* every raw sample of a database has its user, project and resource
\* documents
Referenced(d) ==
  \A s \in d.meter :
    /\ \E o \in d.user : o._id = s.user_id
    /\ \E o \in d.project : o._id = s.project_id
    /\ \E o \in d.resource : o._id = s.resource_id

\* the sub-write that follows a sub-write of a call
NextSubWrite ==
  [user |-> "project", project |-> "resource", resource |-> "meter",
   meter |-> "idle"]

\* C20: a call makes its sub-writes in the order user, project, resource,
\* meter, each changing its own collection only; a sub-write that fails
\* ends the call, changes nothing and undoes nothing; so whatever the
\* interleaving and the failures, every raw sample has its user, project
\* and resource documents.
SubWriteOrder ==
  [][LET u == UrlOf("h1")
     IN  /\ Referenced(db'[u])
         /\ \A c \in Collections :
              db'[u][c] # db[u][c] =>
                \E w \in Writers : wpc[w] = c /\ wpc'[w] = NextSubWrite[c]
         /\ \A w \in Writers :
              wpc'[w] # wpc[w] =>
                \/ wpc[w] = "idle" /\ wpc'[w] = "user" /\ db' = db
                \/ /\ wpc[w] # "idle"
                   /\ wpc'[w] = NextSubWrite[wpc[w]]
                   /\ \A c \in Collections \ {wpc[w]} : db'[u][c] = db[u][c]
                   /\ \A o \in db[u][wpc[w]] :
                        \E n \in db'[u][wpc[w]] : n._id = o._id
                \/ /\ wpc[w] # "idle"
                   /\ wpc'[w] = "idle"
                   /\ result'.status # "ok"
                   /\ db' = db]_vars

\* a call failed at its resource upsert next to one that ran to its end:
\* its user document is there, with no resource and no sample of that user
SubWriteOrderWitness ==
  /\ failed
  /\ \A w \in Writers : wpc[w] = "idle"
  /\ Store.meter # {}
  /\ \E o \in Store.user :
       /\ \A s \in Store.meter : s.user_id # o._id
       /\ \A r \in Store.resource : r.user_id # o._id

(***************************************************************************)
(* Frame of the write path and of the schema manager.                      *)
(***************************************************************************)
\* C21: record_metering_data leaves the dictionary of its caller as it was,
\* with the same keys and values and no '_id' added; the raw sample a call
\* stores has the items of that dictionary, under the '_id' of the caller
\* when the dictionary has one and under a newly generated ObjectId when
\* not.
CallerDataKept ==
  [][(result'.op = "record_metering_data" /\ history' # history) =>
       LET before == history'[Len(history')]
           after == qout'.value
           u == result'.url
           stored == db'[u].meter \ db[u].meter
       IN  /\ DOMAIN after = DOMAIN before
           /\ \A k \in DOMAIN before : after[k] = before[k]
           /\ result'.status = "ok" =>
                \E doc \in stored :
                  /\ stored = {doc}
                  /\ WithoutId(doc) = WithoutId(before)
                  /\ IF "_id" \in DOMAIN before
                     THEN doc._id = before._id /\ noid' = noid
                     ELSE /\ noid' = noid + 1
                          /\ doc._id = ObjectId(noid')
                          /\ \A o \in db[u].meter : o._id # doc._id]_vars

\* a sample passed with an '_id' is stored under it, and the last call,
\* passed a sample without '_id', stored it under a generated one and left
\* the dictionary of its caller without '_id'
CallerDataKeptWitness ==
  /\ qout.op = "record_metering_data"
  /\ result.op = "record_metering_data"
  /\ result.status = "ok"
  /\ Len(history) = 2
  /\ "_id" \in DOMAIN history[1]
  /\ \E doc \in Store.meter : doc._id = history[1]._id
  /\ "_id" \notin DOMAIN history[2]
  /\ "_id" \notin DOMAIN qout.value
  /\ \E doc \in Store.meter :
       doc._id \notin CallerIds /\ WithoutId(doc) = qout.value

\* C22: the sentinel documents of upgrade do not stay: when upgrade has
\* returned, each of the resource, meter, user and project collections holds
\* exactly the documents it held when upgrade was called, in a run that
\* creates the indexes as in one that finds them.
SentinelsGone ==
  [][result'.op = "upgrade" =>
       \A c \in Collections :
         db'[result'.url][c] = db[result'.url][c]]_vars

\* upgrade created the indexes on a store whose resource collection was
\* dropped and whose meter collection still held samples: the samples are
\* there, no sentinel is
SentinelsGoneWitness ==
  /\ result.op = "upgrade"
  /\ <<"meter", "ensure_index">> \in Range(calls)
  /\ <<"project", "remove">> \in Range(calls)
  /\ "meter_idx" \in Store.idx.meter
  /\ Store.meter # {}
  /\ \A c \in Collections : \A o \in Store[c] : "no_key" \notin DOMAIN o
  /\ Store.user = {} /\ Store.project = {} /\ Store.resource = {}

====
